---- MODULE Spec2Model ----
(***************************************************************************)
(* Asset ingestion (save_temp_image, commit_assets) and the thumb://       *)
(* protocol (protocol_handler, resolve_real_path, process_thumbnail) of    *)
(* src-tauri, modelled over one shared filesystem.                         *)
(*                                                                         *)
(* Strings are modelled structurally.  A path is a sequence of segments,   *)
(* a segment is <<stem, ext>>, a stem is a tuple: <<"assets">> for a       *)
(* literal name, <<"sha", x>> for hex(sha256(x)).  File contents are       *)
(* tuples: <<"raw", i>> for payload number i, <<"png", i, w, h>> for the   *)
(* PNG encoding of payload i resized to w x h, <<>> for an empty file and  *)
(* <<"dir">> for a directory.                                              *)
(***************************************************************************)
EXTENDS Integers, Sequences, FiniteSets, TLC

VARIABLES fs, last, saved, tasks, firstResp, calls

vars == <<fs, last, saved, tasks, firstResp, calls>>

\* ------------------------------------------------------------------------
\* Bounds
\* ------------------------------------------------------------------------
NData == 2          \* distinct byte payloads pasted through save_temp_image
MaxItems == 2       \* longest runtime_paths list handed to commit_assets
MaxReq == 3         \* thumb:// requests accepted in one run
PoolSize == 2       \* num_cpus::get() of the modelled host
MaxCalls == 2       \* command invocations in flight at once
MaxQuery == 2       \* key=value pairs in the query of a parsed URI
MaxEnvReq == 2      \* thumb:// requests accepted in a run where the sources change
MaxDim == 7         \* largest native width and height of a resized image

\* ------------------------------------------------------------------------
\* Option values
\* ------------------------------------------------------------------------
None == <<>>
Some(x) == <<x>>

\* ------------------------------------------------------------------------
\* Paths
\* ------------------------------------------------------------------------
Lit(s) == << <<s>>, "" >>
File(s, e) == << <<s>>, e >>
RootSeg == Lit("/")

IsAbsolute(p) == Len(p) > 0 /\ p[1] = RootSeg

\* Path::join: an absolute right-hand side replaces the left-hand side.
Join(a, b) == IF IsAbsolute(b) THEN b ELSE a \o b

\* str::starts_with("_temp/") and str::strip_prefix("_temp/")
StartsWithTemp(p) == Len(p) >= 2 /\ p[1] = Lit("_temp")
StripTemp(p) == Tail(p)

\* Path::extension of the last segment
Extension(p) == IF Len(p) = 0 \/ p[Len(p)][2] = "" THEN None ELSE Some(p[Len(p)][2])

Sha256(x) == <<"sha", x>>

get_temp_dir == <<RootSeg, Lit("cache"), Lit("temp_images")>>
get_thumb_cache_dir == <<RootSeg, Lit("cache"), Lit("thumbs")>>

get_hash_filename(data, ext) == << Sha256(data), ext >>

ProjRoot == <<RootSeg, Lit("proj")>>
\* working directory of the process: relative paths handed to the OS are
\* looked up from here
Cwd == <<RootSeg, Lit("proj")>>

\* ------------------------------------------------------------------------
\* Filesystem: a function from the existing paths to their content
\* ------------------------------------------------------------------------
Dir == <<"dir">>
Empty == <<>>
Raw(i) == <<"raw", i>>
Data == { Raw(i) : i \in 1..NData }

OsPath(p) == IF IsAbsolute(p) THEN p ELSE Cwd \o p
Exists(f, p) == OsPath(p) \in DOMAIN f
FsWrite(f, p, c) == [q \in (DOMAIN f) \cup {OsPath(p)} |-> IF q = OsPath(p) THEN c ELSE f[q]]
FsRemove(f, p) == [q \in (DOMAIN f) \ {OsPath(p)} |-> f[q]]
FsRename(f, src, dst) == FsRemove(FsWrite(f, dst, f[OsPath(src)]), src)
CreateDirAll(f, p) == FsWrite(f, p, Dir)

ExtDir == <<RootSeg, Lit("ext")>>
ExtPng == ExtDir \o <<File("a", "png")>>
ExtMissing == ExtDir \o <<File("missing", "png")>>

\* ------------------------------------------------------------------------
\* save_temp_image
\* ------------------------------------------------------------------------
\* The argument string is modelled as its comma-separated parts: the header
\* "data:image/png;base64", the base64 text of a payload, or text that is not
\* base64.
Hdr == <<"hdr">>
Bad == <<"bad">>
B64(d) == <<"b64", d>>

\* general_purpose::STANDARD.decode
Base64Decode(part) == IF Len(part) = 2 /\ part[1] = "b64" THEN Some(part[2]) ELSE None

SaveInputs == UNION { { <<B64(d)>>, <<Hdr, B64(d)>> } : d \in Data } \cup { <<Bad>>, <<Hdr, Bad>> }
SaveFaults == {"none", "mkdir", "write"}

TempVirtual(filename) == <<Lit("_temp"), filename>>

\* The call's result: the filesystem after it, Ok/Err, the returned string,
\* the decoded payload and the paths it wrote.
SaveErr(f) == [fs |-> f, ok |-> FALSE, out |-> <<>>, data |-> None, writes |-> {}]

SaveWriteAlways(f, file_path, data, fault) ==
    IF fault = "write" THEN [fs |-> f, ok |-> FALSE, writes |-> {}]
    ELSE [fs |-> FsWrite(f, file_path, data), ok |-> TRUE, writes |-> {file_path}]

\* if !file_path.exists() { fs::write(&file_path, &image_data)? }
SaveWrite(f, file_path, data, fault) ==
    IF ~Exists(f, file_path)
    THEN IF fault = "write" THEN [fs |-> f, ok |-> FALSE, writes |-> {}]
         ELSE [fs |-> FsWrite(f, file_path, data), ok |-> TRUE, writes |-> {file_path}]
    ELSE [fs |-> f, ok |-> TRUE, writes |-> {}]

save_temp_image(f, input, fault) ==
    LET raw_base64 == IF Len(input) > 1 THEN input[2] ELSE input[1]
        decoded == Base64Decode(raw_base64)
    IN  IF decoded = None THEN SaveErr(f)
        ELSE LET image_data == decoded[1]
                 filename == get_hash_filename(image_data, "png")
                 temp_dir == get_temp_dir
                 needDir == ~Exists(f, temp_dir)
             IN  IF needDir /\ fault = "mkdir" THEN SaveErr(f)
                 ELSE LET f1 == IF needDir THEN CreateDirAll(f, temp_dir) ELSE f
                          file_path == Join(temp_dir, <<filename>>)
                          w == SaveWrite(f1, file_path, image_data, fault)
                      IN  IF ~w.ok THEN [SaveErr(w.fs) EXCEPT !.data = decoded]
                          ELSE [fs |-> w.fs, ok |-> TRUE, out |-> <<TempVirtual(filename)>>,
                                data |-> decoded, writes |-> w.writes]

\* ------------------------------------------------------------------------
\* commit_assets
\* ------------------------------------------------------------------------
\* One I/O error may strike a call: at step 0 (creating <root>/assets) or at
\* item `at`.  Kinds: "mkdir"; for a temp item "xdev" (rename fails, the
\* copy+delete fallback succeeds), "copyfail" (rename and copy fail),
\* "rmfail" (remove_file fails); for an imported file "readfail", "writefail".
NoFault == [at |-> 0, kind |-> "none"]
TempFaultKinds == {"xdev", "copyfail", "rmfail"}
ImportFaultKinds == {"readfail", "writefail"}
CommitFaults(runtime_paths) ==
    {NoFault, [at |-> 0, kind |-> "mkdir"]}
        \cup UNION { { [at |-> i, kind |-> k] :
                         k \in IF StartsWithTemp(runtime_paths[i])
                               THEN TempFaultKinds ELSE ImportFaultKinds } :
                       i \in 1..Len(runtime_paths) }

AssetsVirtual(filename) == <<Lit("assets")>> \o filename

\* Result of one item: filesystem, emitted string (None when the call aborts
\* with Err), whether an I/O error struck the item, the paths written or
\* removed.
ItemRes(f, out, failed, touched) == [fs |-> f, out |-> out, failed |-> failed, touched |-> touched]

import_external_file_moving(f, src_path, target_dir, kind) ==
    IF kind = "readfail" \/ f[OsPath(src_path)] = Dir
    THEN [fs |-> f, res |-> None, touched |-> {}]
    ELSE LET data == f[OsPath(src_path)]
             e == Extension(src_path)
             ext == IF e = None THEN "bin" ELSE e[1]
             filename == get_hash_filename(data, ext)
             dest_path == Join(target_dir, <<filename>>)
         IN  IF ~Exists(f, dest_path)
             THEN IF kind = "writefail"
                  THEN [fs |-> f, res |-> None, touched |-> {}]
                  ELSE [fs |-> FsRename(f, src_path, dest_path),
                        res |-> Some(AssetsVirtual(<<filename>>)), touched |-> {dest_path}]
             ELSE [fs |-> f, res |-> Some(AssetsVirtual(<<filename>>)), touched |-> {}]
\* lines 82-102
import_external_file(f, src_path, target_dir, kind) ==
    IF kind = "readfail" \/ f[OsPath(src_path)] = Dir
    THEN [fs |-> f, res |-> None, touched |-> {}]
    ELSE LET data == f[OsPath(src_path)]
             e == Extension(src_path)
             ext == IF e = None THEN "bin" ELSE e[1]
             filename == get_hash_filename(data, ext)
             dest_path == Join(target_dir, <<filename>>)
         IN  IF ~Exists(f, dest_path)
             THEN IF kind = "writefail"
                  THEN [fs |-> f, res |-> None, touched |-> {}]
                  ELSE [fs |-> FsWrite(f, dest_path, data),
                        res |-> Some(AssetsVirtual(<<filename>>)), touched |-> {dest_path}]
             ELSE [fs |-> f, res |-> Some(AssetsVirtual(<<filename>>)), touched |-> {}]

CommitTempItemRequiringSource(f, r_path, temp_dir, target_dir, kind) ==
    LET filename == StripTemp(r_path)
        src_path == Join(temp_dir, filename)
        dest_path == Join(target_dir, filename)
        emitted == Some(AssetsVirtual(filename))
    IN  IF Exists(f, src_path)
        THEN IF ~Exists(f, dest_path)
             THEN CASE kind = "copyfail" -> ItemRes(f, None, TRUE, {})
                    [] kind = "rmfail" ->
                         ItemRes(FsWrite(f, dest_path, f[OsPath(src_path)]), None, TRUE, {dest_path})
                    [] OTHER ->
                         ItemRes(FsRename(f, src_path, dest_path), emitted, FALSE,
                                 {src_path, dest_path})
             ELSE IF kind = "rmfail"
                  THEN ItemRes(f, emitted, FALSE, {})
                  ELSE ItemRes(FsRemove(f, src_path), emitted, FALSE, {src_path})
        ELSE IF Exists(f, dest_path)
             THEN ItemRes(f, emitted, FALSE, {})
             ELSE ItemRes(f, None, TRUE, {})

CommitTempItemOverwriting(f, r_path, temp_dir, target_dir, kind) ==
    LET filename == StripTemp(r_path)
        src_path == Join(temp_dir, filename)
        dest_path == Join(target_dir, filename)
        emitted == Some(AssetsVirtual(filename))
    IN  IF Exists(f, src_path)
        THEN CASE kind = "copyfail" -> ItemRes(f, None, TRUE, {})
               [] kind = "rmfail" ->
                    ItemRes(FsWrite(f, dest_path, f[OsPath(src_path)]), None, TRUE, {dest_path})
               [] OTHER ->
                    ItemRes(FsRename(f, src_path, dest_path), emitted, FALSE,
                            {src_path, dest_path})
        ELSE ItemRes(f, emitted, FALSE, {})

\* lines 121-142: a "_temp/" item
CommitTempItem(f, r_path, temp_dir, target_dir, kind) ==
    LET filename == StripTemp(r_path)
        src_path == Join(temp_dir, filename)
        dest_path == Join(target_dir, filename)
        emitted == Some(AssetsVirtual(filename))
    IN  IF Exists(f, src_path)
        THEN IF ~Exists(f, dest_path)
             THEN CASE kind = "copyfail" -> ItemRes(f, None, TRUE, {})
                    [] kind = "rmfail" ->
                         ItemRes(FsWrite(f, dest_path, f[OsPath(src_path)]), None, TRUE, {dest_path})
                    [] OTHER ->
                         ItemRes(FsRename(f, src_path, dest_path), emitted, FALSE,
                                 {src_path, dest_path})
             ELSE IF kind = "rmfail"
                  THEN ItemRes(f, emitted, FALSE, {})
                  ELSE ItemRes(FsRemove(f, src_path), emitted, FALSE, {src_path})
        ELSE ItemRes(f, emitted, FALSE, {})

\* lines 144-160: any other item
CommitOtherItem(f, r_path, target_dir, kind) ==
    IF IsAbsolute(r_path) /\ Exists(f, r_path)
    THEN LET imp == import_external_file(f, r_path, target_dir, kind)
         IN  IF imp.res = None
             THEN ItemRes(imp.fs, Some(r_path), TRUE, imp.touched)
             ELSE ItemRes(imp.fs, imp.res, FALSE, imp.touched)
    ELSE ItemRes(f, Some(r_path), FALSE, {})

CommitItem(f, r_path, temp_dir, target_dir, kind) ==
    IF StartsWithTemp(r_path)
    THEN CommitTempItem(f, r_path, temp_dir, target_dir, kind)
    ELSE CommitOtherItem(f, r_path, target_dir, kind)

RECURSIVE CommitLoopFiltering(_, _, _, _, _)
CommitLoopFiltering(acc, runtime_paths, i, target_dir, fault) ==
    IF i > Len(runtime_paths) THEN acc
    ELSE LET kind == IF fault.at = i THEN fault.kind ELSE "none"
             r == CommitItem(acc.fs, runtime_paths[i], get_temp_dir, target_dir, kind)
             failed == IF r.failed THEN acc.failed \cup {i} ELSE acc.failed
         IN  IF r.out = None
             THEN [acc EXCEPT !.fs = r.fs, !.ok = FALSE, !.out = <<>>, !.failed = failed,
                              !.touched = Append(acc.touched, r.touched),
                              !.snaps = Append(acc.snaps, r.fs)]
             ELSE CommitLoopFiltering(
                      [acc EXCEPT !.fs = r.fs,
                                  !.out = IF r.out[1] = runtime_paths[i] THEN acc.out
                                          ELSE Append(acc.out, r.out[1]),
                                  !.failed = failed,
                                  !.touched = Append(acc.touched, r.touched),
                                  !.snaps = Append(acc.snaps, r.fs)],
                      runtime_paths, i + 1, target_dir, fault)

\* The for loop of lines 119-161, from item i on; acc is the call's result
\* so far.  acc.snaps[i] is the filesystem item i found, acc.snaps[i + 1] the
\* filesystem it left.
RECURSIVE CommitLoop(_, _, _, _, _)
CommitLoop(acc, runtime_paths, i, target_dir, fault) ==
    IF i > Len(runtime_paths) THEN acc
    ELSE LET kind == IF fault.at = i THEN fault.kind ELSE "none"
             r == CommitItem(acc.fs, runtime_paths[i], get_temp_dir, target_dir, kind)
             failed == IF r.failed THEN acc.failed \cup {i} ELSE acc.failed
         IN  IF r.out = None
             THEN [acc EXCEPT !.fs = r.fs, !.ok = FALSE, !.out = <<>>, !.failed = failed,
                              !.touched = Append(acc.touched, r.touched),
                              !.snaps = Append(acc.snaps, r.fs)]
             ELSE CommitLoop([acc EXCEPT !.fs = r.fs, !.out = Append(acc.out, r.out[1]),
                                         !.failed = failed,
                                         !.touched = Append(acc.touched, r.touched),
                                         !.snaps = Append(acc.snaps, r.fs)],
                             runtime_paths, i + 1, target_dir, fault)

commit_assets(f, project_root, runtime_paths, fault) ==
    LET target_dir == Join(project_root, <<Lit("assets")>>)
        needDir == ~Exists(f, target_dir)
        start(f0) == [fs |-> f0, ok |-> TRUE, out |-> <<>>, failed |-> {},
                            touched |-> <<>>, dirOk |-> TRUE, snaps |-> <<f0>>]
    IN  IF needDir /\ fault.kind = "mkdir"
        THEN [fs |-> f, ok |-> FALSE, out |-> <<>>, failed |-> {}, touched |-> <<>>,
              dirOk |-> FALSE, snaps |-> <<>>]
        ELSE CommitLoop(start(IF needDir THEN CreateDirAll(f, target_dir) ELSE f),
                        runtime_paths, 1, target_dir, fault)

\* ------------------------------------------------------------------------
\* The ingestion commands as a state machine
\* ------------------------------------------------------------------------
HashPng(d) == get_hash_filename(d, "png")
TempFile(d) == Join(get_temp_dir, <<HashPng(d)>>)
AssetsDir == Join(ProjRoot, <<Lit("assets")>>)

\* runtime_paths entries: "_temp/<hash>.png", the same temp file named by its
\* absolute path, an asset named by its absolute and by its project-relative
\* path, and a file outside the application's directories.
CommitItems == { TempVirtual(HashPng(d)) : d \in Data }
                 \cup { TempFile(Raw(1)),
                        Join(AssetsDir, <<HashPng(Raw(1))>>),
                        AssetsVirtual(<<HashPng(Raw(1))>>),
                        ExtPng }

RECURSIVE SeqsUpTo(_, _)
SeqsUpTo(S, n) == IF n = 0 THEN { <<>> }
                  ELSE LET shorter == SeqsUpTo(S, n - 1)
                       IN  shorter \cup { Append(q, x) : q \in shorter, x \in S }

CommitInputs == SeqsUpTo(CommitItems, MaxItems)

\* `calls` holds the command invocations in flight when the commands run
\* concurrently (SpecIngest); one slot per invocation.
IdleCall == [op |-> "idle", pc |-> "idle", input |-> <<>>, data |-> None, paths |-> <<>>,
             i |-> 0, out |-> <<>>, ok |-> TRUE, file |-> None, had |-> {}, overlap |-> {}]
NoCalls == [p \in 1..MaxCalls |-> IdleCall]

NoCall == [op |-> "none", input |-> <<>>, paths |-> <<>>, clean |-> TRUE, ok |-> TRUE,
           out |-> <<>>, data |-> None, failed |-> {}, touched |-> <<>>, dirOk |-> TRUE,
           snaps |-> <<>>]

StoreFs == [p \in {ExtDir, ExtPng} |-> IF p = ExtDir THEN Dir ELSE Raw(1)]

Init ==
    /\ fs = StoreFs
    /\ last = NoCall
    /\ saved = [d \in Data |-> None]
    /\ tasks = <<>>
    /\ firstResp = {}
    /\ calls = NoCalls

\* `last` is the observer's record of the latest command call: its arguments,
\* whether an I/O error was injected, and what it returned.  A new call is
\* recorded once the previous record has been dropped (Forget); the one call
\* recorded on top of a record is the repetition of a commit with the same
\* arguments (CommitAssetsAgain).  Every sequence of calls is still a behaviour:
\* the filesystem does not depend on the record.

\* #[tauri::command] save_temp_image
SaveTempImage ==
    /\ last = NoCall
    /\ \E input \in SaveInputs, fault \in SaveFaults :
        \E r \in {save_temp_image(fs, input, fault)} :
            /\ fs' = r.fs
            /\ last' = [NoCall EXCEPT !.op = "save", !.input = input,
                                      !.clean = (fault = "none"), !.ok = r.ok,
                                      !.out = r.out, !.data = r.data,
                                      !.touched = <<r.writes>>]
            /\ saved' = IF ~r.ok THEN saved
                        ELSE IF saved[r.data[1]] = None
                        THEN [saved EXCEPT ![r.data[1]] =
                                  Some([path |-> r.out[1],
                                        content |-> r.fs[TempFile(r.data[1])],
                                        repeated |-> FALSE])]
                        ELSE [saved EXCEPT ![r.data[1]][1].repeated = TRUE]
            /\ UNCHANGED <<tasks, firstResp, calls>>

CommitCall(paths, fault) ==
    \E r \in {commit_assets(fs, ProjRoot, paths, fault)} :
        /\ fs' = r.fs
        /\ last' = [NoCall EXCEPT !.op = "commit", !.paths = paths,
                                  !.clean = (fault = NoFault), !.ok = r.ok,
                                  !.out = r.out, !.failed = r.failed,
                                  !.touched = r.touched, !.dirOk = r.dirOk,
                                  !.snaps = r.snaps]
        /\ saved' = [d \in Data |-> None]
        /\ UNCHANGED <<tasks, firstResp, calls>>

\* #[tauri::command] commit_assets
CommitAssets ==
    /\ last = NoCall
    /\ \E paths \in CommitInputs :
           \E fault \in CommitFaults(paths) : CommitCall(paths, fault)

\* commit_assets called again with the arguments of the call that has just
\* returned Ok
CommitAssetsAgain ==
    /\ last.op = "commit" /\ last.ok /\ last.clean
    /\ CommitCall(last.paths, NoFault)

Forget ==
    /\ last # NoCall
    /\ last' = NoCall
    /\ UNCHANGED <<fs, saved, tasks, firstResp, calls>>

NextStore == SaveTempImage \/ CommitAssets \/ CommitAssetsAgain \/ Forget

SpecStore == Init /\ [][NextStore]_vars

\* ------------------------------------------------------------------------
\* Claims about the ingestion commands (checked under SpecStore)
\* ------------------------------------------------------------------------
\* saved[b] remembers, for payload b, the first successful save_temp_image
\* call since the last commit_assets: the path it returned, the content of
\* the temp file after it, and whether a later successful call with b has
\* happened.

\* The real path a returned "_temp/<name>" string names.
TempTarget(virtual) == Join(get_temp_dir, StripTemp(virtual))

\* C1: dedup idempotence of save_temp_image.  After a second (or later)
\* successful call with payload b, with only save_temp_image calls since the
\* first, the call returned the same virtual path "_temp/<hash(b)>.png" as the
\* first, it wrote nothing, and the temp file holds what it held after the
\* first call.
C1_SaveDedupIdempotent ==
    (last.op = "save" /\ last.ok /\ saved[last.data[1]][1].repeated) =>
        LET first == saved[last.data[1]][1]
        IN  /\ last.out = <<first.path>>
            /\ first.path = TempVirtual(get_hash_filename(last.data[1], "png"))
            /\ last.touched = << {} >>
            /\ Exists(fs, TempTarget(first.path))
            /\ fs[TempTarget(first.path)] = first.content

\* C1 witness: a repeated successful save of a payload, given this time as a
\* data URI, while another payload's file is in the temp directory too.
C1_Witness ==
    /\ last.op = "save" /\ last.ok /\ Len(last.input) = 2
    /\ saved[last.data[1]][1].repeated
    /\ \E d \in Data : d # last.data[1] /\ Exists(fs, TempFile(d))

\* C2: commit idempotence.  When commit_assets has returned Ok and is called
\* again with the same arguments, no I/O error striking either call, the second
\* call returns Ok with the same output list and leaves the filesystem as the
\* first call left it.
C2_CommitIdempotent ==
    [][ (/\ last.op = "commit" /\ last.ok /\ last.clean
         /\ last'.op = "commit" /\ last'.clean /\ last'.paths = last.paths)
        => (last'.ok /\ last'.out = last.out /\ fs' = fs) ]_vars

\* C3: commit_assets isolates failures per item.  Once <root>/assets exists,
\* the call returns Ok with one output per input, and every item whose
\* processing met an I/O error is emitted as its original string.
C3_PerItemIsolation ==
    (last.op = "commit" /\ last.dirOk) =>
        /\ last.ok
        /\ Len(last.out) = Len(last.paths)
        /\ \A i \in last.failed : last.out[i] = last.paths[i]

\* Item i of the recorded commit_assets call: its source in the temp
\* directory and its destination in <root>/assets when it is a "_temp/" item.
ItemSrc(i) == Join(get_temp_dir, StripTemp(last.paths[i]))
ItemDest(i) == Join(AssetsDir, StripTemp(last.paths[i]))

\* C13: move postcondition of commit.  For a "_temp/<name>" item whose temp
\* source exists when the item is processed, in a call that returns Ok:
\* afterwards <root>/assets/<name> exists, <tempDir>/<name> does not, the
\* output entry is "assets/<name>", and a destination that was absent holds
\* the former content of the temp file.
C13_MovePostcondition ==
    (last.op = "commit" /\ last.ok) =>
        \A i \in 1..Len(last.paths) :
            (StartsWithTemp(last.paths[i]) /\ Exists(last.snaps[i], ItemSrc(i))) =>
                /\ Exists(fs, ItemDest(i))
                /\ ~Exists(fs, ItemSrc(i))
                /\ last.out[i] = AssetsVirtual(StripTemp(last.paths[i]))
                /\ ~Exists(last.snaps[i], ItemDest(i)) =>
                       fs[ItemDest(i)] = last.snaps[i][ItemSrc(i)]

\* Item i of the recorded call names, by an absolute path, a file that exists
\* when the item is processed.
ItemIsExistingFile(i) ==
    /\ IsAbsolute(last.paths[i])
    /\ Exists(last.snaps[i], last.paths[i])
    /\ last.snaps[i][last.paths[i]] # Dir
ItemContent(i) == last.snaps[i][last.paths[i]]
\* <root>/assets/<hash(content)>.<ext>
ImportName(i) ==
    get_hash_filename(ItemContent(i),
        IF Extension(last.paths[i]) = None THEN "bin" ELSE Extension(last.paths[i])[1])
ImportDest(i) == Join(AssetsDir, <<ImportName(i)>>)

\* C14 as stated: importing an external file copies and never moves.  For
\* every item that is an absolute path to an existing file, after a call that
\* returned Ok the source is in place with its content, the file
\* <root>/assets/<hash(content)>.<ext> exists with that content, it was
\* written only if it was absent, and the output entry is
\* "assets/<hash(content)>.<ext>".
C14_ImportCopiesAsStated ==
    (last.op = "commit" /\ last.ok) =>
        \A i \in 1..Len(last.paths) :
            ItemIsExistingFile(i) =>
                /\ Exists(fs, last.paths[i]) /\ fs[last.paths[i]] = ItemContent(i)
                /\ Exists(fs, ImportDest(i)) /\ fs[ImportDest(i)] = ItemContent(i)
                /\ last.touched[i] \subseteq {ImportDest(i)}
                /\ ImportDest(i) \in last.touched[i] => ~Exists(last.snaps[i], ImportDest(i))
                /\ last.out[i] = AssetsVirtual(<<ImportName(i)>>)

\* C14 amended: the same, for an item whose import met no I/O error (an item
\* whose read or write fails is emitted as its original string and nothing is
\* stored for it); the item itself leaves its source in place, and the source
\* is still in place after the call unless the list also names that very file
\* as a "_temp/" item, which moves or removes it.
C14_ImportCopies ==
    (last.op = "commit" /\ last.ok) =>
        \A i \in 1..Len(last.paths) :
            (ItemIsExistingFile(i) /\ i \notin last.failed) =>
                /\ Exists(last.snaps[i + 1], last.paths[i])
                /\ last.snaps[i + 1][last.paths[i]] = ItemContent(i)
                /\ (\A j \in 1..Len(last.paths) :
                        ~(StartsWithTemp(last.paths[j]) /\ ItemSrc(j) = last.paths[i])) =>
                       (Exists(fs, last.paths[i]) /\ fs[last.paths[i]] = ItemContent(i))
                /\ Exists(fs, ImportDest(i)) /\ fs[ImportDest(i)] = ItemContent(i)
                /\ last.touched[i] \subseteq {ImportDest(i)}
                /\ ImportDest(i) \in last.touched[i] => ~Exists(last.snaps[i], ImportDest(i))
                /\ last.out[i] = AssetsVirtual(<<ImportName(i)>>)

\* C14 witness: one call has imported /ext/a.png into an assets directory
\* that did not hold it, and has found the import of another item already
\* stored.
C14_Witness ==
    /\ last.op = "commit" /\ last.ok
    /\ \E i, j \in 1..Len(last.paths) :
        /\ last.paths[i] = ExtPng /\ ItemIsExistingFile(i) /\ i \notin last.failed
        /\ ImportDest(i) \in last.touched[i]
        /\ j # i /\ ItemIsExistingFile(j) /\ j \notin last.failed
        /\ last.touched[j] = {}

InDir(p, dir) == Len(p) = Len(dir) + 1 /\ SubSeq(p, 1, Len(dir)) = dir
Stored(p) == InDir(p, get_temp_dir) \/ InDir(p, AssetsDir)
\* The paths the recorded call wrote, renamed or removed
TouchedBy(call) == UNION { call.touched[i] : i \in 1..Len(call.touched) }

\* C17: stored files are never overwritten.  In every step, a file of the
\* temp directory or of <root>/assets that is still there afterwards has the
\* content it had and was not written by the call; a file that is gone was a
\* temp file and the call was a commit_assets.
C17_NeverOverwritten ==
    [][ \A p \in DOMAIN fs :
            Stored(p) =>
                IF p \in DOMAIN fs'
                THEN fs'[p] = fs[p] /\ p \notin TouchedBy(last')
                ELSE InDir(p, get_temp_dir) /\ last'.op = "commit" ]_vars

\* C17 witness: a commit_assets call has met a temp file whose name was
\* already stored in <root>/assets, and has removed the temp file only.
C17_Witness ==
    /\ last.op = "commit" /\ last.ok
    /\ \E i \in 1..Len(last.paths) :
        /\ StartsWithTemp(last.paths[i])
        /\ Exists(last.snaps[i], ItemSrc(i)) /\ Exists(last.snaps[i], ItemDest(i))
        /\ last.touched[i] = {ItemSrc(i)}

\* Item i of the recorded call was processed: the loop reached it.
ItemProcessed(i) == i < Len(last.snaps)
\* Item i is "_temp/<name>" and, when it is processed, neither
\* <tempDir>/<name> nor <root>/assets/<name> exists.
ItemIsMissingTemp(i) ==
    /\ StartsWithTemp(last.paths[i])
    /\ ~Exists(last.snaps[i], ItemSrc(i))
    /\ ~Exists(last.snaps[i], ItemDest(i))

\* C21: commit_assets rewrites a "_temp/<name>" input whether or not the file
\* exists.  An item processed when neither <tempDir>/<name> nor
\* <root>/assets/<name> exists raises no error, creates, writes and removes
\* nothing, and is emitted as "assets/<name>" by a call that returns Ok; a
\* call whose assets directory is in place never aborts at such an item.
C21_MissingTempRewritten ==
    (last.op = "commit" /\ last.dirOk) =>
        /\ \A i \in 1..Len(last.paths) :
            (ItemProcessed(i) /\ ItemIsMissingTemp(i)) =>
                /\ last.snaps[i + 1] = last.snaps[i]
                /\ last.touched[i] = {}
                /\ i \notin last.failed
                /\ last.ok => last.out[i] = AssetsVirtual(StripTemp(last.paths[i]))
        /\ ~last.ok => ~ItemIsMissingTemp(Len(last.snaps) - 1)

\* C21 witness: a call made of such items alone has returned Ok with
\* "assets/<name>" for a name that no file of <root>/assets bears.
C21_Witness ==
    /\ last.op = "commit" /\ last.ok /\ Len(last.paths) >= 1
    /\ \A i \in 1..Len(last.paths) :
        /\ ItemIsMissingTemp(i)
        /\ last.out[i] = AssetsVirtual(StripTemp(last.paths[i]))
        /\ ~Exists(fs, ItemDest(i))

\* ------------------------------------------------------------------------
\* Images
\* ------------------------------------------------------------------------
\* Payload 1 is a 4x2 image; payload 2 has the header of a 4x2 image and a
\* corrupt body; payload 3 is not an image; any other payload is a 4x3 image.

\* image::image_dimensions
ImageDimensions(c) ==
    CASE Len(c) = 2 -> (CASE c[2] = 1 -> Some(<<4, 2>>)
                          [] c[2] = 2 -> Some(<<4, 2>>)
                          [] c[2] = 3 -> None
                          [] OTHER -> Some(<<4, 3>>))
      [] Len(c) = 4 -> Some(<<c[3], c[4]>>)
      [] OTHER -> None

\* ImageReader::open(..)?.decode()
Decode(c) ==
    CASE Len(c) = 2 -> IF c[2] \in {2, 3} THEN None ELSE Some(c)
      [] Len(c) = 4 -> Some(c)
      [] OTHER -> None

\* mime_guess::from_path(path).first_or_octet_stream()
get_mime_type(path) ==
    LET e == Extension(path)
    IN  CASE e = Some("png") -> "image/png"
          [] e = Some("jpg") -> "image/jpeg"
          [] OTHER -> "application/octet-stream"

\* (orig_height as f64 * target_width as f64 / orig_width as f64) as u32
TargetHeight(orig_height, target_width, orig_width) ==
    (orig_height * target_width) \div orig_width

\* Resizer::resize into a target_width x target_height image, then
\* PngEncoder::write_image: the PNG bytes, or None when the encoder refuses
\* the image (a zero dimension).
ResizeEncode(img, target_width, target_height) ==
    IF target_width = 0 \/ target_height = 0 THEN None
    ELSE Some(<<"png", img[2], target_width, target_height>>)

\* ------------------------------------------------------------------------
\* thumb:// requests
\* ------------------------------------------------------------------------
\* A request URI is its path component (a virtual path) and its query, a
\* sequence of <<key, value>> pairs.  The value of w is a string of
\* characters: 0..9 are the digits, anything above is a letter.
DefaultWidth == 0

RECURSIVE DecimalValue(_)
DecimalValue(s) == IF s = <<>> THEN 0 ELSE 10 * DecimalValue(SubSeq(s, 1, Len(s) - 1)) + s[Len(s)]

\* str::parse::<u32>, for strings shorter than ten characters (no overflow)
ParseU32(s) ==
    IF s = <<>> \/ (\E i \in 1..Len(s) : s[i] > 9)
    THEN None ELSE Some(DecimalValue(s))

\* lines 163-183: the loop over the query's pairs
RECURSIVE ParseQuery(_, _)
ParseQuery(query, acc) ==
    IF query = <<>> THEN acc
    ELSE LET k == Head(query)[1]
             v == Head(query)[2]
         IN  ParseQuery(Tail(query),
                 CASE k = "w" -> [acc EXCEPT !.target_width =
                                      IF ParseU32(v) = None THEN DefaultWidth ELSE ParseU32(v)[1]]
                   [] k = "root" -> [acc EXCEPT !.project_root = Some(v)]
                   [] OTHER -> acc)

ParseRequest(req) == ParseQuery(req.query, [target_width |-> DefaultWidth, project_root |-> None])

\* lines 129-148
resolve_real_path(f, path_str, project_root) ==
    IF StartsWithTemp(path_str) THEN Some(Join(get_temp_dir, StripTemp(path_str)))
    ELSE IF ~IsAbsolute(path_str) /\ project_root # None
         THEN Some(Join(project_root[1], path_str))
         ELSE IF Exists(f, path_str) THEN Some(path_str) ELSE None

\* ------------------------------------------------------------------------
\* process_thumbnail
\* ------------------------------------------------------------------------
\* Err(String) values
ErrMsg(what, path) == <<"err", what, path>>

\* What process_thumbnail hands back, or how it ends otherwise: kind is "ok"
\* (Ok((data, mime))), "err" (Err(msg)), "miss" (not returned yet: the
\* thumbnail has to be generated) or "panic" (an unwrap() on Err or None).
PResult(kind, data, mime, msg) == [kind |-> kind, data |-> data, mime |-> mime, msg |-> msg]
POk(data, mime) == PResult("ok", data, mime, <<>>)
PErr(msg) == PResult("err", <<>>, "", msg)

\* lines 57-66: the cache file of (path, width)
CachePath(file_path, target_width) ==
    LET cache_key == <<file_path, target_width>>
        filename == << <<"sha", cache_key, target_width>>, "png" >>
    IN  Join(get_thumb_cache_dir, <<filename>>)

\* line 49
IsPassthrough(target_width, orig_width) == target_width = 0 \/ orig_width < target_width

ProcessLookupCacheFirst(f, file_path, target_width) ==
    LET thumb_dir == get_thumb_cache_dir
        f1 == IF ~Exists(f, thumb_dir) THEN CreateDirAll(f, thumb_dir) ELSE f
        cache_path == CachePath(file_path, target_width)
    IN  IF target_width # 0 /\ Exists(f1, cache_path)
        THEN [res |-> POk(f1[cache_path], "image/png"), fs |-> f1, dims |-> <<>>]
        ELSE IF ~Exists(f, file_path)
        THEN [res |-> PErr(ErrMsg("Source file not found", file_path)), fs |-> f, dims |-> <<>>]
        ELSE LET dims == ImageDimensions(f[OsPath(file_path)])
             IN  IF dims = None
                 THEN [res |-> PErr(ErrMsg("no dimensions", file_path)), fs |-> f, dims |-> <<>>]
                 ELSE IF IsPassthrough(target_width, dims[1][1])
                      THEN [res |-> POk(f[OsPath(file_path)], get_mime_type(file_path)),
                            fs |-> f, dims |-> dims[1]]
                      ELSE [res |-> PResult("miss", <<>>, "", <<>>), fs |-> f1,
                            dims |-> dims[1]]

\* lines 40-72: up to the cache lookup
ProcessLookup(f, file_path, target_width) ==
    IF ~Exists(f, file_path)
    THEN [res |-> PErr(ErrMsg("Source file not found", file_path)), fs |-> f, dims |-> <<>>]
    ELSE LET dims == ImageDimensions(f[OsPath(file_path)])
         IN  IF dims = None
             THEN [res |-> PErr(ErrMsg("no dimensions", file_path)), fs |-> f, dims |-> <<>>]
             ELSE IF IsPassthrough(target_width, dims[1][1])
                  THEN [res |-> POk(f[OsPath(file_path)], get_mime_type(file_path)),
                        fs |-> f, dims |-> dims[1]]
                  ELSE LET thumb_dir == get_thumb_cache_dir
                           f1 == IF ~Exists(f, thumb_dir) THEN CreateDirAll(f, thumb_dir) ELSE f
                           cache_path == CachePath(file_path, target_width)
                       IN  IF Exists(f1, cache_path)
                           THEN [res |-> POk(f1[cache_path], "image/png"), fs |-> f1,
                                 dims |-> dims[1]]
                           ELSE [res |-> PResult("miss", <<>>, "", <<>>), fs |-> f1,
                                 dims |-> dims[1]]

\* lines 76-113: decode, resize, encode; on "ok" data is the encoded buffer
ProcessGenerate(f, file_path, target_width, dims) ==
    IF ~Exists(f, file_path)
    THEN [res |-> PErr(ErrMsg("Failed to open image", file_path)), resized |-> FALSE]
    ELSE LET src_image == Decode(f[OsPath(file_path)])
         IN  IF src_image = None
             THEN [res |-> PResult("panic", <<>>, "", <<>>), resized |-> FALSE]
             ELSE LET target_height == TargetHeight(dims[2], target_width, dims[1])
                      png == ResizeEncode(src_image[1], target_width, target_height)
                  IN  IF png = None
                      THEN [res |-> PResult("panic", <<>>, "", <<>>), resized |-> TRUE]
                      ELSE [res |-> POk(png[1], "image/png"), resized |-> TRUE]

\* ------------------------------------------------------------------------
\* protocol_handler and the worker pool
\* ------------------------------------------------------------------------
Resp200(data, mime_type) ==
    [status |-> 200, body |-> data, ctype |-> Some(mime_type), cors |-> Some("*"),
     cache |-> Some("public, max-age=31536000")]
Resp500(e) == [status |-> 500, body |-> e, ctype |-> None, cors |-> None, cache |-> None]
Resp404 == [status |-> 404, body |-> <<"File not found">>, ctype |-> None, cors |-> None,
            cache |-> None]

Req(path, query) == [path |-> path, query |-> query]
W(s) == <<"w", s>>
RootParam(p) == <<"root", p>>

TempPng == TempVirtual(HashPng(Raw(1)))

Requests ==
    { Req(TempPng, <<W(<<2>>)>>),
      Req(TempPng, <<W(<<4>>)>>),
      Req(TempPng, <<W(<<5>>)>>),
      Req(TempPng, <<>>),
      Req(ExtPng, <<W(<<2>>)>>),
      Req(AssetsVirtual(<<HashPng(Raw(1))>>), <<W(<<2>>), RootParam(ProjRoot)>>),
      Req(ExtMissing, <<W(<<2>>)>>) }

\* A task is one closure handed to pool.execute.  pc: "queued", then
\* "resolved" (a worker runs it; the path is resolved), "generate" (cache
\* miss), "write" (buffer encoded), "writing" (fs::write has created the
\* cache file and not yet filled it), "done" or "panicked".
NewTask(req) ==
    [req |-> req, pc |-> "queued", target_width |-> 0, real |-> None, dims |-> <<>>,
     buffer |-> <<>>, resp |-> <<>>, result |-> PResult("none", <<>>, "", <<>>), resized |-> FALSE, wrote |-> FALSE,
     faulted |-> FALSE, prior |-> None, missAtStart |-> FALSE]

RunningPcs == {"resolved", "generate", "write", "writing"}
Running == { i \in 1..Len(tasks) : tasks[i].pc \in RunningPcs }
Queued == { i \in 1..Len(tasks) : tasks[i].pc = "queued" }

ThumbFs(c) ==
    [p \in {ExtDir, ExtPng, get_temp_dir, TempFile(Raw(1))} |->
        CASE p = ExtPng -> c
          [] p = TempFile(Raw(1)) -> Raw(1)
          [] OTHER -> Dir]

InitThumb ==
    /\ \E c \in {Raw(1), Raw(2), Raw(3)} : fs = ThumbFs(c)
    /\ last = NoCall
    /\ saved = [d \in Data |-> None]
    /\ tasks = <<>>
    /\ firstResp = {}
    /\ calls = NoCalls

\* lines 151-161 and 227: the handler hands the closure to the pool and returns
Accept ==
    \E req \in Requests :
        /\ Len(tasks) < MaxReq
        /\ tasks' = Append(tasks, NewTask(req))
        /\ UNCHANGED <<fs, last, saved, firstResp, calls>>

PoolHasIdleWorkerAlways(n) == TRUE
\* threadpool: a job starts only on one of the pool's num_threads workers
PoolHasIdleWorker(n) == n < PoolSize

FirstOf(key) == { r \in firstResp : r.key = key }

\* lines 162-197: a worker takes the oldest queued closure, parses the URI and
\* resolves the path
Start(i) ==
    /\ i \in Queued
    /\ \A j \in Queued : i <= j
    /\ PoolHasIdleWorker(Cardinality(Running))
    /\ \E parsed \in {ParseRequest(tasks[i].req)} :
       \E real \in {resolve_real_path(fs, tasks[i].req.path, parsed.project_root)} :
       \E key \in {<<real, parsed.target_width>>} :
           tasks' = [tasks EXCEPT ![i] =
                [@ EXCEPT !.pc = "resolved", !.target_width = parsed.target_width,
                          !.real = real,
                          !.prior = IF FirstOf(key) = {} THEN None
                                    ELSE Some((CHOOSE r \in FirstOf(key) : TRUE).body),
                          !.missAtStart = (real # None
                                             /\ ~Exists(fs, CachePath(real[1], parsed.target_width)))]]
    /\ UNCHANGED <<fs, last, saved, firstResp, calls>>

\* lines 199-226: the response built from the resolution and from what
\* process_thumbnail returned
HandlerResponseSwapped(real_path_opt, res) ==
    IF real_path_opt = None THEN Resp500(<<"File not found">>)
    ELSE IF res.kind = "ok" THEN Resp200(res.data, res.mime) ELSE Resp404
HandlerResponse(real_path_opt, res) ==
    IF real_path_opt = None THEN Resp404
    ELSE IF res.kind = "ok" THEN Resp200(res.data, res.mime) ELSE Resp500(res.msg)

\* responder.respond(..): the closure ends
Finish(t, res) ==
    [t EXCEPT !.pc = "done", !.result = res,
              !.resp = Append(t.resp, HandlerResponse(t.real, res))]

\* lines 199-200 with process_thumbnail lines 40-72
Serve(i) ==
    /\ i \in 1..Len(tasks)
    /\ tasks[i].pc = "resolved"
    /\ IF tasks[i].real = None
       THEN /\ tasks' = [tasks EXCEPT ![i] = Finish(@, PResult("unresolved", <<>>, "", <<>>))]
            /\ fs' = fs
       ELSE \E lk \in {ProcessLookup(fs, tasks[i].real[1], tasks[i].target_width)} :
                /\ fs' = lk.fs
                /\ tasks' = [tasks EXCEPT ![i] =
                       IF lk.res.kind = "miss"
                       THEN [@ EXCEPT !.pc = "generate", !.dims = lk.dims]
                       ELSE Finish([@ EXCEPT !.dims = lk.dims], lk.res)]
    /\ UNCHANGED <<last, saved, firstResp, calls>>

\* process_thumbnail lines 74-113
Generate(i) ==
    /\ i \in 1..Len(tasks)
    /\ tasks[i].pc = "generate"
    /\ \E g \in {ProcessGenerate(fs, tasks[i].real[1], tasks[i].target_width, tasks[i].dims)} :
           tasks' = [tasks EXCEPT ![i] =
               CASE g.res.kind = "ok" ->
                      [@ EXCEPT !.pc = "write", !.buffer = g.res.data, !.resized = TRUE]
                 [] g.res.kind = "panic" ->
                      [@ EXCEPT !.pc = "panicked", !.result = g.res, !.resized = g.resized]
                 [] OTHER -> Finish(@, g.res)]
    /\ UNCHANGED <<fs, last, saved, firstResp, calls>>

\* process_thumbnail line 115, first half: fs::write creates or truncates the
\* cache file, or fails
WriteCreate(i) ==
    /\ i \in 1..Len(tasks)
    /\ tasks[i].pc = "write"
    /\ LET cache_path == CachePath(tasks[i].real[1], tasks[i].target_width)
       IN  \E fails \in BOOLEAN :
               IF fails
               THEN /\ tasks' = [tasks EXCEPT ![i] =
                           Finish([@ EXCEPT !.faulted = TRUE],
                                  PErr(ErrMsg("write failed", cache_path)))]
                    /\ fs' = fs
               ELSE /\ tasks' = [tasks EXCEPT ![i] = [@ EXCEPT !.pc = "writing", !.wrote = TRUE]]
                    /\ fs' = FsWrite(fs, cache_path, Empty)
    /\ UNCHANGED <<last, saved, firstResp, calls>>

\* process_thumbnail lines 115-125, second half: the buffer reaches the file,
\* Ok((buffer, "image/png")) is returned and answered with 200
WriteFill(i) ==
    /\ i \in 1..Len(tasks)
    /\ tasks[i].pc = "writing"
    /\ LET key == <<tasks[i].real, tasks[i].target_width>>
           cache_path == CachePath(tasks[i].real[1], tasks[i].target_width)
       IN  /\ fs' = FsWrite(fs, cache_path, tasks[i].buffer)
           /\ tasks' = [tasks EXCEPT ![i] = Finish(@, POk(tasks[i].buffer, "image/png"))]
           /\ firstResp' = IF FirstOf(key) = {}
                           THEN firstResp \cup {[key |-> key, body |-> tasks[i].buffer]}
                           ELSE firstResp
    /\ UNCHANGED <<last, saved, calls>>

NextThumb ==
    \/ Accept
    \/ \E i \in 1..MaxReq : Start(i)
    \/ \E i \in 1..MaxReq : Serve(i)
    \/ \E i \in 1..MaxReq : Generate(i)
    \/ \E i \in 1..MaxReq : WriteCreate(i)
    \/ \E i \in 1..MaxReq : WriteFill(i)

SpecThumb == InitThumb /\ [][NextThumb]_vars

\* ------------------------------------------------------------------------
\* Claims about the thumb protocol (checked under SpecThumb)
\* ------------------------------------------------------------------------
Ended(t) == t.pc \in {"done", "panicked"}
SourceOf(t) == OsPath(t.real[1])
KeyOf(t) == <<t.real, t.target_width>>

\* C4: every request is answered exactly once.  A closure that has ended has
\* sent exactly one response through its responder, with status 200, 404 or
\* 500, and a processing failure of any kind has been answered with 500.
C4_AlwaysAnswered ==
    \A i \in 1..Len(tasks) :
        Ended(tasks[i]) =>
            /\ Len(tasks[i].resp) = 1
            /\ tasks[i].resp[1].status \in {200, 404, 500}
            /\ (tasks[i].result.kind \in {"err", "panic"} => tasks[i].resp[1].status = 500)

\* C5: passthrough boundary.  For a request whose source exists and has
\* native width W, no I/O error striking it: when w = 0 or w >= W the answer is 200 with the source's
\* bytes and the MIME type of its extension, nothing was resized and no cache
\* entry exists for (path, w); and a resize happens only when 0 < w < W.
C5_PassthroughBoundary ==
    \A i \in 1..Len(tasks) :
        LET t == tasks[i]
        IN  (Ended(t) /\ t.real # None /\ t.dims # <<>> /\ ~t.faulted) =>
                /\ (t.target_width = 0 \/ t.target_width >= t.dims[1]) =>
                       /\ t.resp = <<Resp200(fs[SourceOf(t)], get_mime_type(t.real[1]))>>
                       /\ ~t.resized /\ ~t.wrote
                       /\ ~Exists(fs, CachePath(t.real[1], t.target_width))
                /\ t.resized => (0 < t.target_width /\ t.target_width < t.dims[1])

\* C6: cache fast path.  A fetch that starts after a fetch for the same
\* (realPath, w) has stored its cache entry and answered 200, and whose source
\* exists and can be probed, answers 200 image/png with the bytes of that first
\* answer, and neither resizes nor writes the cache.
C6_CacheFastPath ==
    \A i \in 1..Len(tasks) :
        LET t == tasks[i]
        IN  (t.pc = "done" /\ t.prior # None /\ t.dims # <<>>) =>
                /\ t.resp = <<Resp200(t.prior[1], "image/png")>>
                /\ ~t.resized /\ ~t.wrote

C9_BoundedPool ==
    /\ [](Cardinality(Running) <= PoolSize)
    /\ [](Len(tasks) < MaxReq => ENABLED Accept)
    /\ [][Len(tasks') > Len(tasks) =>
            /\ fs' = fs
            /\ tasks' = Append(tasks, NewTask(tasks'[Len(tasks')].req))]_vars

\* C9 witness: a request has arrived while PoolSize closures were running, and
\* waits in the queue.
C9_Witness == Cardinality(Running) = PoolSize /\ Queued # {}

\* C10: a concurrent cache miss on one key is benign.  Two fetches for the
\* same (realPath, w), both started while no cache entry existed, on a source
\* that decodes, with no write error: once both have ended, both have answered
\* 200 with the same bytes, and the cache entry holds exactly those bytes
\* (unless a third fetch is writing it).
C10_ConcurrentMissBenign ==
    \A i, j \in 1..Len(tasks) :
        LET a == tasks[i]
            b == tasks[j]
        IN  (/\ i # j /\ Ended(a) /\ Ended(b)
             /\ a.real # None /\ KeyOf(a) = KeyOf(b)
             /\ a.missAtStart /\ b.missAtStart
             /\ ~a.faulted /\ ~b.faulted
             /\ a.dims # <<>> /\ ~IsPassthrough(a.target_width, a.dims[1])
             /\ Exists(fs, a.real[1]) /\ Decode(fs[SourceOf(a)]) # None) =>
                /\ a.resp # <<>> /\ b.resp # <<>>
                /\ a.resp[1].status = 200 /\ b.resp[1].status = 200
                /\ a.resp[1].body = b.resp[1].body
                /\ (\A k \in 1..Len(tasks) : tasks[k].pc # "writing" \/ KeyOf(tasks[k]) # KeyOf(a)) =>
                       /\ Exists(fs, CachePath(a.real[1], a.target_width))
                       /\ fs[CachePath(a.real[1], a.target_width)] = a.resp[1].body

\* C11: a reader is never corrupted by a cache write in progress.  A fetch
\* that is not a passthrough and answers 200 never answers with an empty or
\* truncated cache file: its body is a complete PNG of the requested width.
C11_ReaderNeverCorrupted ==
    \A i \in 1..Len(tasks) :
        LET t == tasks[i]
        IN  (/\ t.resp # <<>> /\ t.resp[1].status = 200
             /\ t.dims # <<>> /\ ~IsPassthrough(t.target_width, t.dims[1])) =>
                /\ t.resp[1].body # Empty
                /\ ImageDimensions(t.resp[1].body) # None
                /\ ImageDimensions(t.resp[1].body)[1][1] = t.target_width

\* ------------------------------------------------------------------------
\* The thumb protocol while the sources change (SpecThumbEnv)
\* ------------------------------------------------------------------------
\* Between the steps of the handler another program rewrites or removes
\* /ext/a.png, and commit_assets moves the pasted temp image into the project.
EnvRequests == { Req(TempPng, <<W(<<2>>)>>), Req(ExtPng, <<W(<<2>>)>>) }

InitThumbEnv ==
    /\ fs = ThumbFs(Raw(1))
    /\ last = NoCall
    /\ saved = [d \in Data |-> None]
    /\ tasks = <<>>
    /\ firstResp = {}
    /\ calls = NoCalls

\* lines 151-161 and 227
AcceptEnv ==
    \E req \in EnvRequests :
        /\ Len(tasks) < MaxEnvReq
        /\ tasks' = Append(tasks, NewTask(req))
        /\ UNCHANGED <<fs, last, saved, firstResp, calls>>

\* /ext/a.png is rewritten in place: with another image (4x3), or with bytes
\* that are not an image
ReplaceSource ==
    /\ Exists(fs, ExtPng)
    /\ \E c \in {Raw(3), Raw(4)} :
        /\ fs[ExtPng] # c
        /\ fs' = FsWrite(fs, ExtPng, c)
    /\ UNCHANGED <<last, saved, tasks, firstResp, calls>>

\* /ext/a.png is deleted
RemoveSource ==
    /\ Exists(fs, ExtPng)
    /\ fs' = FsRemove(fs, ExtPng)
    /\ UNCHANGED <<last, saved, tasks, firstResp, calls>>

\* commit_assets(root, ["_temp/<hash>.png"]) moves the temp image away
MoveTempAway ==
    /\ Exists(fs, TempFile(Raw(1)))
    /\ fs' = commit_assets(fs, ProjRoot, <<TempPng>>, NoFault).fs
    /\ UNCHANGED <<last, saved, tasks, firstResp, calls>>

NextThumbEnv ==
    \/ AcceptEnv
    \/ \E i \in 1..MaxEnvReq : Start(i)
    \/ \E i \in 1..MaxEnvReq : Serve(i)
    \/ \E i \in 1..MaxEnvReq : Generate(i)
    \/ \E i \in 1..MaxEnvReq : WriteCreate(i)
    \/ \E i \in 1..MaxEnvReq : WriteFill(i)
    \/ ReplaceSource
    \/ RemoveSource
    \/ MoveTempAway

SpecThumbEnv == InitThumbEnv /\ [][NextThumbEnv]_vars

\* C18: cache entries are never invalidated.  No step deletes a thumbnail
\* cache file or changes its content once its bytes have been written; and a fetch that starts after
\* the first answer for its (realPath, w) was cached, finds its source and
\* probes a native width of at least w, answers 200 image/png with those
\* first bytes, whatever has happened to the source's content since.
C18_NeverInvalidated ==
    /\ [][ \A p \in DOMAIN fs :
               (InDir(p, get_thumb_cache_dir) /\ fs[p] # Empty) =>
                   (p \in DOMAIN fs' /\ fs'[p] = fs[p]) ]_vars
    /\ [](\A i \in 1..Len(tasks) :
            LET t == tasks[i]
            IN  (/\ t.pc = "done" /\ t.prior # None /\ t.dims # <<>>
                 /\ t.target_width > 0 /\ t.dims[1] >= t.target_width) =>
                    t.resp = <<Resp200(t.prior[1], "image/png")>>)

\* The file a task's request names, whether or not it exists
RequestedFile(t) ==
    IF t.real # None THEN OsPath(t.real[1]) ELSE OsPath(t.req.path)
SourceGone(f, t) ==
    \/ RequestedFile(t) \notin DOMAIN f
    \/ ImageDimensions(f[RequestedFile(t)]) = None
HasCacheEntry(f, t) ==
    /\ Exists(f, CachePath(RequestedFile(t), t.target_width))
    /\ f[CachePath(RequestedFile(t), t.target_width)] # Empty
\* The step in which task i looks its thumbnail up while its source is gone
\* or cannot be probed and a cache entry for its (realPath, w) exists
LooksUpGone(i) ==
    /\ i \in 1..Len(tasks)
    /\ tasks[i].pc = "resolved" /\ tasks'[i].pc = "done"
    /\ SourceGone(fs, tasks[i]) /\ HasCacheEntry(fs, tasks[i])

\* C20 as stated: a cached thumbnail is served only while its source is
\* present.  A fetch for a (realPath, w) that has a cache entry, made after the
\* source was removed or made unprobeable, is answered with 500 and not with
\* the cached bytes.
C20_SourceGoneIs500 ==
    [][ \A i \in 1..MaxEnvReq :
            LooksUpGone(i) =>
                /\ tasks'[i].resp[1].status = 500
                /\ tasks'[i].resp[1].body
                       # fs[CachePath(RequestedFile(tasks[i]), tasks[i].target_width)] ]_vars

\* C20 amended: such a fetch is answered with an error and never with the
\* cached bytes: with 500 and process_thumbnail's message when the path was
\* resolved, and with 404 when the request names the source by an absolute
\* path, which resolve_real_path no longer resolves once the file is removed.
C20_SourceGoneIsError ==
    [][ \A i \in 1..MaxEnvReq :
            LooksUpGone(i) =>
                /\ tasks'[i].resp[1].body
                       # fs[CachePath(RequestedFile(tasks[i]), tasks[i].target_width)]
                /\ IF tasks[i].real = None
                   THEN /\ IsAbsolute(tasks[i].req.path)
                        /\ tasks'[i].resp = <<Resp404>>
                   ELSE /\ tasks'[i].result.kind = "err"
                        /\ tasks'[i].resp = <<Resp500(tasks'[i].result.msg)>> ]_vars

\* C20 witness: a fetch that started after the first answer for its
\* (realPath, w) was cached has been answered 500 without probing a size,
\* and the cache entry is still there.
C20_Witness ==
    \E i \in 1..Len(tasks) :
        /\ tasks[i].pc = "done" /\ tasks[i].prior # None /\ tasks[i].dims = <<>>
        /\ tasks[i].resp[1].status = 500
        /\ HasCacheEntry(fs, tasks[i])
        /\ fs[CachePath(RequestedFile(tasks[i]), tasks[i].target_width)] = tasks[i].prior[1]

\* ------------------------------------------------------------------------
\* resolve_real_path as a function of its inputs (SpecResolve)
\* ------------------------------------------------------------------------
AssetFile == Join(AssetsDir, <<HashPng(Raw(1))>>)
ResolveFiles == {TempFile(Raw(1)), ExtPng, AssetFile}
\* "_temp/<hash>.png", "_temp" alone, absolute paths, "assets/<hash>.png"
ResolvePaths == {TempPng, <<Lit("_temp")>>, ExtPng, ExtMissing, AssetFile,
                 AssetsVirtual(<<HashPng(Raw(1))>>)}
ResolveRoots == {None, Some(ProjRoot), Some(ExtDir)}

InitResolve ==
    /\ \E S \in SUBSET ResolveFiles : fs = [p \in S |-> Raw(1)]
    /\ last = NoCall
    /\ saved = [d \in Data |-> None]
    /\ tasks = <<>>
    /\ firstResp = {}
    /\ calls = NoCalls

Resolve ==
    \E path_str \in ResolvePaths, project_root \in ResolveRoots :
        /\ last' = [NoCall EXCEPT !.op = "resolve", !.paths = <<path_str>>,
                                  !.input = project_root,
                                  !.out = resolve_real_path(fs, path_str, project_root)]
        /\ UNCHANGED <<fs, saved, tasks, firstResp, calls>>

NextResolve == Resolve

SpecResolve == InitResolve /\ [][NextResolve]_vars

\* C7: resolver precedence.  The result is tempDir/<rest> for a "_temp/"
\* string; else the string itself when it is an absolute path that exists;
\* else projectRoot/<string> when the string is not absolute and a projectRoot
\* is supplied; else unresolved.  A non-temp relative string with no
\* projectRoot is never returned as a path.
C7_ResolverPrecedence ==
    last.op = "resolve" =>
        LET path_str == last.paths[1]
            project_root == last.input
        IN  /\ last.out =
                 IF StartsWithTemp(path_str) THEN Some(get_temp_dir \o StripTemp(path_str))
                 ELSE IF IsAbsolute(path_str) /\ Exists(fs, path_str) THEN Some(path_str)
                 ELSE IF ~IsAbsolute(path_str) /\ project_root # None
                      THEN Some(project_root[1] \o path_str)
                 ELSE None
            /\ (~StartsWithTemp(path_str) /\ ~IsAbsolute(path_str) /\ project_root = None)
                   => last.out = None

\* ------------------------------------------------------------------------
\* The ingestion commands running concurrently (SpecIngest)
\* ------------------------------------------------------------------------
\* Both commands are async Tauri commands: two invocations can run on two
\* threads of the runtime.  Each invocation advances one filesystem call at a
\* time.  pc of a save_temp_image invocation: "s_dir" (lines 66-68), "s_exists"
\* (line 73), "s_create" and "s_fill" (the two halves of fs::write, line 74),
\* "done".  pc of a commit_assets invocation: "c_dir" (lines 113-115), then per
\* item "c_src" (line 127), "c_dst" (line 128), "c_move" (lines 130-135) or
\* "c_rm" (line 138), "done".
\*
\* `file` of a save is where the file it has opened for writing now is: a
\* rename carries an open file along, a removal or a replacement detaches it
\* (None).  `had` is the set of items of a commit whose temp source existed
\* when the invocation began; `overlap` is the set of slots that were in
\* flight together with this invocation.

IngestSaveInputs == { <<B64(d)>> : d \in Data } \cup { <<Bad>> }
IngestCommitInputs ==
    SeqsUpTo({ TempVirtual(HashPng(d)) : d \in Data }, MaxItems) \ { <<>> }

InFlight(p) == calls[p].pc \notin {"idle", "done"}
Others(p) == { q \in 1..MaxCalls : q # p /\ InFlight(q) }

\* The records of the other invocations once p has begun
Joined(p, rec) ==
    [q \in 1..MaxCalls |->
        IF q = p THEN [rec EXCEPT !.overlap = Others(p)]
        ELSE IF InFlight(q) THEN [calls[q] EXCEPT !.overlap = @ \cup {p}]
        ELSE calls[q]]

\* Open files follow a rename from src to dst; files open on the replaced dst
\* are detached.
AfterRename(cs, src, dst) ==
    [q \in 1..MaxCalls |->
        IF cs[q].file = Some(src) THEN [cs[q] EXCEPT !.file = Some(dst)]
        ELSE IF cs[q].file = Some(dst) THEN [cs[q] EXCEPT !.file = None]
        ELSE cs[q]]
AfterRemove(cs, path) ==
    [q \in 1..MaxCalls |->
        IF cs[q].file = Some(path) THEN [cs[q] EXCEPT !.file = None] ELSE cs[q]]

InitIngest ==
    /\ fs = StoreFs
    /\ last = NoCall
    /\ saved = [d \in Data |-> None]
    /\ tasks = <<>>
    /\ firstResp = {}
    /\ calls = NoCalls

\* save_temp_image lines 54-63: split, decode, hash
BeginSave(p) ==
    /\ calls[p].pc = "idle"
    /\ \E input \in IngestSaveInputs :
        LET raw_base64 == IF Len(input) > 1 THEN input[2] ELSE input[1]
            decoded == Base64Decode(raw_base64)
        IN  calls' = Joined(p, [IdleCall EXCEPT !.op = "save", !.input = input,
                                   !.data = decoded,
                                   !.pc = IF decoded = None THEN "done" ELSE "s_dir",
                                   !.ok = (decoded # None)])
    /\ UNCHANGED <<fs, last, saved, tasks, firstResp>>

\* lines 66-68
SaveDir(p) ==
    /\ calls[p].pc = "s_dir"
    /\ fs' = IF ~Exists(fs, get_temp_dir) THEN CreateDirAll(fs, get_temp_dir) ELSE fs
    /\ calls' = [calls EXCEPT ![p].pc = "s_exists"]
    /\ UNCHANGED <<last, saved, tasks, firstResp>>

\* line 73, and line 78 when the file is there
SaveExists(p) ==
    /\ calls[p].pc = "s_exists"
    /\ calls' = [calls EXCEPT ![p] =
           IF Exists(fs, TempFile(calls[p].data[1]))
           THEN [@ EXCEPT !.pc = "done", !.out = <<TempVirtual(HashPng(calls[p].data[1]))>>]
           ELSE [@ EXCEPT !.pc = "s_create"]]
    /\ UNCHANGED <<fs, last, saved, tasks, firstResp>>

\* line 74, first half: fs::write creates the file or truncates the one that
\* is there
SaveCreate(p) ==
    /\ calls[p].pc = "s_create"
    /\ fs' = FsWrite(fs, TempFile(calls[p].data[1]), Empty)
    /\ calls' = [calls EXCEPT ![p].pc = "s_fill",
                              ![p].file = Some(TempFile(calls[p].data[1]))]
    /\ UNCHANGED <<last, saved, tasks, firstResp>>

\* line 74, second half, and line 78
SaveFill(p) ==
    /\ calls[p].pc = "s_fill"
    /\ fs' = IF calls[p].file = None THEN fs
             ELSE FsWrite(fs, calls[p].file[1], calls[p].data[1])
    /\ calls' = [calls EXCEPT ![p].pc = "done", ![p].file = None,
                              ![p].out = <<TempVirtual(HashPng(calls[p].data[1]))>>]
    /\ UNCHANGED <<last, saved, tasks, firstResp>>

\* commit_assets lines 110-111
BeginCommit(p) ==
    /\ calls[p].pc = "idle"
    /\ \E paths \in IngestCommitInputs :
        calls' = Joined(p, [IdleCall EXCEPT !.op = "commit", !.paths = paths, !.pc = "c_dir",
                               !.had = { i \in 1..Len(paths) :
                                           Exists(fs, Join(get_temp_dir, StripTemp(paths[i]))) }])
    /\ UNCHANGED <<fs, last, saved, tasks, firstResp>>

\* lines 113-117
CommitDir(p) ==
    /\ calls[p].pc = "c_dir"
    /\ fs' = IF ~Exists(fs, AssetsDir) THEN CreateDirAll(fs, AssetsDir) ELSE fs
    /\ calls' = [calls EXCEPT ![p].pc = "c_src", ![p].i = 1]
    /\ UNCHANGED <<last, saved, tasks, firstResp>>

CommitSrcPath(c) == Join(get_temp_dir, StripTemp(c.paths[c.i]))
CommitDestPath(c) == Join(AssetsDir, StripTemp(c.paths[c.i]))

\* line 141, and the loop's advance to the next item or to line 163
Pushed(c) ==
    [c EXCEPT !.out = Append(c.out, AssetsVirtual(StripTemp(c.paths[c.i]))),
              !.i = c.i + 1,
              !.pc = IF c.i = Len(c.paths) THEN "done" ELSE "c_src"]

\* line 127
CommitSrc(p) ==
    /\ calls[p].pc = "c_src"
    /\ calls' = [calls EXCEPT ![p] =
           IF Exists(fs, CommitSrcPath(calls[p])) THEN [@ EXCEPT !.pc = "c_dst"]
           ELSE Pushed(@)]
    /\ UNCHANGED <<fs, last, saved, tasks, firstResp>>

\* line 128
CommitDst(p) ==
    /\ calls[p].pc = "c_dst"
    /\ calls' = [calls EXCEPT ![p].pc =
           IF ~Exists(fs, CommitDestPath(calls[p])) THEN "c_move" ELSE "c_rm"]
    /\ UNCHANGED <<fs, last, saved, tasks, firstResp>>

\* lines 130-135: fs::rename, which fails when the source is gone, as then
\* does the fs::copy of the fallback, and `?` returns the error
CommitMove(p) ==
    /\ calls[p].pc = "c_move"
    /\ LET src == CommitSrcPath(calls[p])
           dst == CommitDestPath(calls[p])
       IN  IF Exists(fs, src)
           THEN /\ fs' = FsRename(fs, src, dst)
                /\ calls' = AfterRename([calls EXCEPT ![p] = Pushed(@)], src, dst)
           ELSE /\ fs' = fs
                /\ calls' = [calls EXCEPT ![p].pc = "done", ![p].ok = FALSE, ![p].out = <<>>]
    /\ UNCHANGED <<last, saved, tasks, firstResp>>

\* line 138: let _ = fs::remove_file(&src_path)
CommitRm(p) ==
    /\ calls[p].pc = "c_rm"
    /\ LET src == CommitSrcPath(calls[p])
       IN  /\ fs' = IF Exists(fs, src) THEN FsRemove(fs, src) ELSE fs
           /\ calls' = AfterRemove([calls EXCEPT ![p] = Pushed(@)], src)
    /\ UNCHANGED <<last, saved, tasks, firstResp>>

\* the command's future resolves: the result goes to the frontend
ReturnCall(p) ==
    /\ calls[p].pc = "done"
    /\ calls' = [calls EXCEPT ![p] = IdleCall]
    /\ UNCHANGED <<fs, last, saved, tasks, firstResp>>

NextIngest ==
    \E p \in 1..MaxCalls :
        \/ BeginSave(p) \/ SaveDir(p) \/ SaveExists(p) \/ SaveCreate(p) \/ SaveFill(p)
        \/ BeginCommit(p) \/ CommitDir(p) \/ CommitSrc(p) \/ CommitDst(p)
        \/ CommitMove(p) \/ CommitRm(p)
        \/ ReturnCall(p)

SpecIngest == InitIngest /\ [][NextIngest]_vars

\* C12: concurrent ingestion of the same asset is benign.  Two invocations
\* that were in flight together and have both ended, no third one in flight:
\* two commit_assets whose lists share a "_temp/<name>" item, its temp source
\* existing when each began, both returned Ok with "assets/<name>" at the
\* item's positions, and <root>/assets/<name> holds the complete payload; two
\* save_temp_image of the same bytes both returned Ok with the same path, and
\* the temp file holds the complete payload.
C12_ConcurrentIngestBenign ==
    \A p, q \in 1..MaxCalls :
        LET a == calls[p]
            b == calls[q]
        IN  (/\ p # q /\ a.pc = "done" /\ b.pc = "done" /\ q \in a.overlap
             /\ \A r \in 1..MaxCalls : ~InFlight(r)) =>
                /\ (a.op = "commit" /\ b.op = "commit") =>
                     \A i \in a.had, j \in b.had :
                         a.paths[i] = b.paths[j] =>
                             /\ a.ok /\ b.ok
                             /\ a.out[i] = AssetsVirtual(StripTemp(a.paths[i]))
                             /\ b.out[j] = a.out[i]
                             /\ Exists(fs, Join(AssetsDir, StripTemp(a.paths[i])))
                             /\ HashPng(fs[Join(AssetsDir, StripTemp(a.paths[i]))])
                                    = a.paths[i][2]
                /\ (a.op = "save" /\ b.op = "save" /\ a.data # None /\ a.data = b.data) =>
                     /\ a.ok /\ b.ok
                     /\ a.out = b.out
                     /\ a.out = <<TempVirtual(HashPng(a.data[1]))>>
                     /\ Exists(fs, TempFile(a.data[1]))
                     /\ fs[TempFile(a.data[1])] = a.data[1]

\* ------------------------------------------------------------------------
\* URI parsing of the two handler variants as a function of the URI (SpecParse)
\* ------------------------------------------------------------------------
\* The handler registered inline in run() (lib.rs) parses the URI as
\* protocol_handler does, with another default width.
InlineDefaultWidth == 500

InlineWidthZero(v) == IF ParseU32(v) = None THEN 0 ELSE ParseU32(v)[1]
\* lib.rs line 338: v.parse().unwrap_or(500)
InlineWidth(v) == IF ParseU32(v) = None THEN InlineDefaultWidth ELSE ParseU32(v)[1]

\* lib.rs lines 334-349
RECURSIVE ParseQueryInline(_, _)
ParseQueryInline(query, acc) ==
    IF query = <<>> THEN acc
    ELSE LET k == Head(query)[1]
             v == Head(query)[2]
         IN  ParseQueryInline(Tail(query),
                 CASE k = "w" -> [acc EXCEPT !.target_width = InlineWidth(v)]
                   [] k = "root" -> [acc EXCEPT !.project_root = Some(v)]
                   [] OTHER -> acc)

ParseRequestInline(req) ==
    ParseQueryInline(req.query, [target_width |-> InlineDefaultWidth, project_root |-> None])

\* What a handler variant makes of a URI up to the call of process_thumbnail:
\* the width, the project root and the resolved path.
Parsed(variant, f, req) ==
    LET parsed == IF variant = "inline" THEN ParseRequestInline(req) ELSE ParseRequest(req)
    IN  [target_width |-> parsed.target_width, project_root |-> parsed.project_root,
         real |-> resolve_real_path(f, req.path, parsed.project_root)]

\* w values: "2", "500", "abc", "" (10, 11, 12 stand for the letters a, b, c)
QueryPairs == { W(<<2>>), W(<<5, 0, 0>>), W(<<10, 11, 12>>), W(<<>>),
                RootParam(ProjRoot), <<"x", <<1>>>> }
ParseQueries == SeqsUpTo(QueryPairs, MaxQuery)
ParsePaths == { TempPng, AssetsVirtual(<<HashPng(Raw(1))>>), ExtMissing }
Variants == { "thumb_protocol", "inline" }

InitParse ==
    /\ fs = ThumbFs(Raw(1))
    /\ last = NoCall
    /\ saved = [d \in Data |-> None]
    /\ tasks = <<>>
    /\ firstResp = {}
    /\ calls = NoCalls

ParseUri ==
    \E variant \in Variants, path \in ParsePaths, query \in ParseQueries :
        /\ last' = [NoCall EXCEPT !.op = "parse", !.input = <<variant>>,
                                  !.paths = Req(path, query),
                                  !.out = Parsed(variant, fs, Req(path, query))]
        /\ UNCHANGED <<fs, saved, tasks, firstResp, calls>>

NextParse == ParseUri

SpecParse == InitParse /\ [][NextParse]_vars

\* The query without its w pairs
WithoutW(query) == SelectSeq(query, LAMBDA pair : pair[1] # "w")
\* The value of the query's last w pair is not a u32 in decimal
MalformedW(query) ==
    \E i \in 1..Len(query) :
        /\ query[i][1] = "w" /\ ParseU32(query[i][2]) = None
        /\ \A j \in (i + 1)..Len(query) : query[j][1] # "w"

Sizes ==
    { <<ow, oh, tw>> : ow \in 1..MaxDim, oh \in 1..MaxDim, tw \in 1..MaxDim }
        \cup { <<1000, 500, 400>> }
ResizedSizes == { z \in Sizes : z[3] < z[1] }

InitHeight ==
    /\ fs = StoreFs
    /\ last = NoCall
    /\ saved = [d \in Data |-> None]
    /\ tasks = <<>>
    /\ firstResp = {}
    /\ calls = NoCalls

\* process_thumbnail lines 81-110 on a decoded image of the given size
Resize ==
    \E z \in ResizedSizes :
        LET target_height == TargetHeight(z[2], z[3], z[1])
        IN  /\ last' = [NoCall EXCEPT !.op = "resize", !.input = z,
                           !.out = <<target_height, ResizeEncode(Raw(1), z[3], target_height)>>]
            /\ UNCHANGED <<fs, saved, tasks, firstResp, calls>>

NextHeight == Resize

SpecHeight == InitHeight /\ [][NextHeight]_vars

\* H * w / W rounded to the nearest integer
RoundedHeight(oh, tw, ow) == (2 * oh * tw + ow) \div (2 * ow)

\* C19: aspect-ratio height.  For every native size (W, H) and target width w
\* with 0 < w < W the computed height is round(H * w / W) and is not 0, and
\* the generated thumbnail is w wide and that high.
C19_AspectHeight ==
    last.op = "resize" =>
        LET ow == last.input[1]
            oh == last.input[2]
            tw == last.input[3]
        IN  /\ last.out[1] = RoundedHeight(oh, tw, ow)
            /\ last.out[1] # 0
            /\ last.out[2] # None
            /\ ImageDimensions(last.out[2][1]) = Some(<<tw, RoundedHeight(oh, tw, ow)>>)

====
